---- MODULE Spec2Model ----
(***************************************************************************)
(* Model of addons/webui/media/custom_media.py: the MediaRelay fan-out     *)
(* (MediaRelay, RelayStreamTrack) and the MediaPlayer decode thread        *)
(* (MediaPlayer, PlayerStreamTrack, player_worker).                        *)
(*                                                                         *)
(* Everything except player_worker runs on one asyncio event loop, so a    *)
(* handler is atomic from one await to the next; one action models one     *)
(* such stretch.  player_worker runs on its own thread and interleaves     *)
(* with the loop step by step.                                             *)
(***************************************************************************)
EXTENDS Integers, Sequences, FiniteSets, TLC

\* ---------------------------------------------------------------- bounds
MaxProxies == 2      \* subscribe() calls made on the relay
NumFrames == 2       \* frames a relay source returns before it ends

ProxyIds == 1..MaxProxies
\* The relay keeps its bookkeeping per source track and no handler reads another
\* source's entries; the model follows the proxies of one source track.
Sources == {1}

\* A MediaRelay and a MediaPlayer share no state; a run drives one of them.
VARIABLE scene    \* "relay", "player", "recorder", "blackhole", or "timed": a player
                  \* with a clock

\* ---------------------------------------------------------------- relay state
VARIABLES
    r_keys,       \* keys of MediaRelay.__proxies
    r_proxies,    \* MediaRelay.__proxies[track] (the active proxy set)
    r_tasks,      \* keys of MediaRelay.__tasks
    r_running,    \* number of __run_track coroutines alive, per source
    r_pos,        \* frames the source track has returned so far
    r_eos,        \* history: the fan-out task has broadcast the end sentinel
    x_exists,     \* proxies created by subscribe()
    x_source,     \* RelayStreamTrack._source (0 is None)
    x_relay,      \* RelayStreamTrack._relay is not None
    x_ended,      \* MediaStreamTrack readyState = "ended"
    x_queue,      \* RelayStreamTrack._queue
    x_pc,         \* "idle" or "waiting" (recv suspended in _queue.get())
    x_result,     \* outcome of the proxy's latest completed recv()
    x_recvd,      \* history: frames returned by the proxy's recv() calls
    x_hist        \* history: per proxy, what the run has done to it so far

relayVars == <<r_keys, r_proxies, r_tasks, r_running, r_pos, r_eos, x_exists, x_source,
               x_relay, x_ended, x_queue, x_pc, x_result, x_recvd, x_hist>>

\* ---------------------------------------------------------------- player state
VARIABLES
    m_tracks,     \* kinds for which the player built a PlayerStreamTrack
    m_throttle,   \* MediaPlayer._throttle_playback
    m_container,  \* "open", or "closed" once __container is closed and None
    m_thread,     \* MediaPlayer.__thread is not None
    m_quit,       \* MediaPlayer.__thread_quit is set
    m_started,    \* MediaPlayer.__started
    m_max,        \* the video track's max_frame_to_decode
    wk,           \* player_worker: position and locals, and the decoder's position
    w_alive,      \* number of player_worker threads started and not yet returned
    handoff,      \* run_coroutine_threadsafe(_queue.put(..)) calls not yet run by the loop
    t_ended,      \* readyState = "ended"
    t_player,     \* PlayerStreamTrack._player is not None
    t_queue,      \* PlayerStreamTrack._queue
    t_pc,         \* "idle", "waiting" (in _queue.get()) or "pacing" (in asyncio.sleep)
    t_hold,       \* the frame a pacing recv() is about to return
    t_paced,      \* PlayerStreamTrack._start is not None
    t_result,     \* outcome of the track's latest completed recv()
    t_recvd,      \* history: frames returned by the track's recv() calls
    t_eos,        \* history: recv() consumed the end sentinel
    h_handed      \* history: what the worker handed to each track, in order

playerVars == <<m_tracks, m_throttle, m_container, m_thread, m_quit, m_started, m_max,
                wk, w_alive, handoff, t_ended, t_player, t_queue, t_pc, t_hold, t_paced,
                t_result, t_recvd, t_eos, h_handed>>

\* ---------------------------------------------------------------- recorder state
VARIABLES
    k_container,  \* "open", or "closed" once MediaRecorder.__container is closed and None
    k_tracks,     \* keys of MediaRecorder.__tracks, in insertion order
    k_ctx,        \* tracks whose context.task is not None
    k_task,       \* the task made for a track: "none", "waiting", "cancelled" or "done"
    k_recvd,      \* frames the track's task got from track.recv()
    k_muxed,      \* history: packets the track's task muxed into the container
    k_flushed,    \* history: tracks whose encoder stop() flushed into the container
    k_failed      \* history: tasks that reached the mux call with __container None

recorderVars == <<k_container, k_tracks, k_ctx, k_task, k_recvd, k_muxed, k_flushed,
                  k_failed>>

\* ---------------------------------------------------------------- blackhole state
VARIABLES
    b_tracks,     \* keys of MediaBlackhole.__tracks
    b_ref,        \* __tracks[track]: the ordinal of the track's task it holds, 0 for None
    b_tasks,      \* every blackhole_consume task made for a track, in order: its state
    b_pos,        \* frames the track has returned so far
    b_stops       \* stop() calls made so far

blackholeVars == <<b_tracks, b_ref, b_tasks, b_pos, b_stops>>

\* A step of the relay leaves the player alone, and the other way round.
InRelay == scene = "relay" /\ UNCHANGED <<scene, playerVars, recorderVars, blackholeVars>>
InPlayer ==
    /\ scene \in {"player", "timed"}
    /\ UNCHANGED <<scene, relayVars, recorderVars, blackholeVars>>
\* The run follows the wall clock of the decode thread.
Timed == scene = "timed"
InRecorder == scene = "recorder" /\ UNCHANGED <<scene, relayVars, playerVars, blackholeVars>>
InBlackhole == scene = "blackhole" /\ UNCHANGED <<scene, relayVars, playerVars, recorderVars>>

\* A frame object of a relay source is <<source, ordinal>>; None is the end sentinel.
None == <<0, 0>>
SourceFrame(s, i) == <<s, i>>
IsFrame(f) == f # None

\* The frames source s has returned to the fan-out task so far.
Emitted(s) == [i \in 1..r_pos[s] |-> SourceFrame(s, i)]
\* Everything source s returns before it raises MediaStreamError.
AllFrames(s) == [i \in 1..NumFrames |-> SourceFrame(s, i)]

RECURSIVE FramesOf(_)
FramesOf(q) ==
    IF q = <<>> THEN <<>>
    ELSE IF IsFrame(Head(q)) THEN <<Head(q)>> \o FramesOf(Tail(q))
    ELSE FramesOf(Tail(q))

\* History record of one proxy (observation only, never read by the handlers).
NoHist == [origin |-> 0,      \* source given to subscribe()
           early |-> FALSE,   \* subscribe() came before the source's first frame
           late |-> FALSE,    \* subscribe() came after the source's sentinel broadcast
           regAt |-> -1,      \* r_pos of the source when first put in the active set
           eos |-> FALSE]     \* recv() consumed the end sentinel

RelayInit ==
    /\ r_keys = {}
    /\ r_proxies = [s \in Sources |-> {}]
    /\ r_tasks = {}
    /\ r_running = [s \in Sources |-> 0]
    /\ r_pos = [s \in Sources |-> 0]
    /\ r_eos = [s \in Sources |-> FALSE]
    /\ x_exists = {}
    /\ x_source = [p \in ProxyIds |-> 0]
    /\ x_relay = [p \in ProxyIds |-> FALSE]
    /\ x_ended = [p \in ProxyIds |-> FALSE]
    /\ x_queue = [p \in ProxyIds |-> <<>>]
    /\ x_pc = [p \in ProxyIds |-> "idle"]
    /\ x_result = [p \in ProxyIds |-> "none"]
    /\ x_recvd = [p \in ProxyIds |-> <<>>]
    /\ x_hist = [p \in ProxyIds |-> NoHist]

\* ---------------------------------------------------------------- MediaRelay

\* asyncio.Queue.put_nowait as called by the fan-out loop.
PutNowaitFront(q, frame) == <<frame>> \o q
PutNowait(q, frame) == Append(q, frame)

\* MediaRelay.subscribe: a new proxy bound to the track; the track is registered
\* with an empty active set when unknown.
MediaRelay_subscribe(p, s) ==
    /\ x_exists' = x_exists \cup {p}
    /\ x_source' = [x_source EXCEPT ![p] = s]
    /\ x_relay' = [x_relay EXCEPT ![p] = TRUE]
    /\ r_keys' = r_keys \cup {s}
    /\ r_proxies' = IF s \in r_keys THEN r_proxies ELSE [r_proxies EXCEPT ![s] = {}]
    /\ x_hist' = [x_hist EXCEPT ![p] = [NoHist EXCEPT !.origin = s, !.early = (r_pos[s] = 0),
                                                       !.late = r_eos[s]]]
    /\ UNCHANGED <<r_tasks, r_running, r_pos, r_eos, x_ended, x_queue, x_pc, x_result, x_recvd>>

\* MediaRelay._start: the relay's bookkeeping after the call.
MediaRelay_start_NoTaskCheck(p) ==
    LET track == x_source[p] IN
    IF track # 0 /\ track \in r_keys
    THEN [proxies |-> [r_proxies EXCEPT ![track] = @ \cup {p}],
          tasks |-> r_tasks \cup {track},
          running |-> [r_running EXCEPT ![track] = @ + 1]]
    ELSE [proxies |-> r_proxies, tasks |-> r_tasks, running |-> r_running]

MediaRelay_start(p) ==
    LET track == x_source[p] IN
    IF track # 0 /\ track \in r_keys
    THEN [proxies |-> [r_proxies EXCEPT ![track] = @ \cup {p}],
          tasks |-> r_tasks \cup {track},
          running |-> IF track \in r_tasks THEN r_running
                      ELSE [r_running EXCEPT ![track] = @ + 1]]
    ELSE [proxies |-> r_proxies, tasks |-> r_tasks, running |-> r_running]

\* A _stop that leaves the proxy in the active set.
MediaRelay_stop_KeepsProxy(p, prox) == prox

\* MediaRelay._stop: the active sets after the call, starting from `prox`.
MediaRelay_stop_ClearsAll(p, prox) ==
    LET track == x_source[p] IN
    IF track # 0 /\ track \in r_keys
    THEN [prox EXCEPT ![track] = {}]
    ELSE prox

MediaRelay_stop(p, prox) ==
    LET track == x_source[p] IN
    IF track # 0 /\ track \in r_keys
    THEN [prox EXCEPT ![track] = @ \ {p}]
    ELSE prox

\* A source that hands out its last frame again once its end was broadcast.
SourceRecv_Replays(s) ==
    IF r_pos[s] < NumFrames THEN SourceFrame(s, r_pos[s] + 1)
    ELSE IF r_eos[s] THEN SourceFrame(s, NumFrames) ELSE None

\* The outcome of `await track.recv()` in the fan-out loop: the source's next
\* frame, or None once the source raises MediaStreamError.
SourceRecv(s) == IF r_pos[s] < NumFrames THEN SourceFrame(s, r_pos[s] + 1) ELSE None

\* The fan-out loop's `for proxy in self.__proxies[track]: put_nowait(frame)`:
\* the queues afterwards.
Broadcast_DropWhenBusy(s, frame) ==
    [p \in ProxyIds |->
        IF p \in r_proxies[s] /\ (x_queue[p] = <<>> \/ frame = None)
        THEN PutNowait(x_queue[p], frame)
        ELSE x_queue[p]]

Broadcast(s, frame) ==
    [p \in ProxyIds |->
        IF p \in r_proxies[s] THEN PutNowait(x_queue[p], frame) ELSE x_queue[p]]

\* One turn of MediaRelay.__run_track's loop: the source's recv() completes, the
\* frame (None when the source raised MediaStreamError) is put in the queue of
\* every proxy of the active set, and after None the bookkeeping is deleted.
MediaRelay_run_track(s) ==
    /\ r_running[s] > 0
    /\ s \in r_keys
    /\ LET frame == SourceRecv(s) IN
       /\ x_queue' = Broadcast(s, frame)
       /\ IF IsFrame(frame)
          THEN /\ r_pos' = [r_pos EXCEPT ![s] = @ + 1]
               /\ UNCHANGED <<r_keys, r_proxies, r_tasks, r_running, r_eos>>
          ELSE /\ r_keys' = r_keys \ {s}
               /\ r_proxies' = [r_proxies EXCEPT ![s] = {}]
               /\ r_tasks' = r_tasks \ {s}
               /\ r_running' = [r_running EXCEPT ![s] = @ - 1]
               /\ r_eos' = [r_eos EXCEPT ![s] = TRUE]
               /\ UNCHANGED r_pos
    /\ UNCHANGED <<x_exists, x_source, x_relay, x_ended, x_pc, x_result, x_recvd, x_hist>>

\* ---------------------------------------------------------------- RelayStreamTrack

\* `if self.readyState != "live": raise MediaStreamError`, the first statement of
\* both recv() methods.
RecvRaisesNever(ended) == FALSE
RecvRaises(ended) == ended

\* History update of recv(): the first registration is noted.
HistAfterStart(p, prox) ==
    LET h == x_hist[p]
        s == x_source[p] IN
    IF s # 0 /\ h.regAt = -1 /\ p \in prox[s] THEN [h EXCEPT !.regAt = r_pos[s]] ELSE h

\* The part of recv() after _queue.get() returned: None stops the proxy and
\* raises MediaStreamError, anything else is returned.
RelayTake(p, prox, hist) ==
    LET frame == Head(x_queue[p]) IN
    /\ x_queue' = [x_queue EXCEPT ![p] = Tail(@)]
    /\ x_pc' = [x_pc EXCEPT ![p] = "idle"]
    /\ IF frame = None
       THEN /\ x_ended' = [x_ended EXCEPT ![p] = TRUE]
            /\ r_proxies' = IF x_relay[p] THEN MediaRelay_stop(p, prox) ELSE prox
            /\ x_relay' = [x_relay EXCEPT ![p] = FALSE]
            /\ x_source' = IF x_relay[p] THEN [x_source EXCEPT ![p] = 0] ELSE x_source
            /\ x_hist' = [x_hist EXCEPT ![p] = [hist EXCEPT !.eos = TRUE]]
            /\ x_result' = [x_result EXCEPT ![p] = "MediaStreamError"]
            /\ UNCHANGED x_recvd
       ELSE /\ x_recvd' = [x_recvd EXCEPT ![p] = Append(@, frame)]
            /\ x_result' = [x_result EXCEPT ![p] = "frame"]
            /\ r_proxies' = prox
            /\ x_hist' = [x_hist EXCEPT ![p] = hist]
            /\ UNCHANGED <<x_ended, x_relay, x_source>>

\* RelayStreamTrack.recv up to its first suspension.
RelayStreamTrack_recv(p) ==
    /\ p \in x_exists
    /\ x_pc[p] = "idle"
    /\ IF RecvRaises(x_ended[p])
       THEN /\ x_result' = [x_result EXCEPT ![p] = "MediaStreamError"]
            /\ UNCHANGED <<r_keys, r_proxies, r_tasks, r_running, r_pos, r_eos, x_exists, x_source,
                           x_relay, x_ended, x_queue, x_pc, x_recvd, x_hist>>
       ELSE IF ~x_relay[p]      \* None has no _start
       THEN /\ x_result' = [x_result EXCEPT ![p] = "AttributeError"]
            /\ UNCHANGED <<r_keys, r_proxies, r_tasks, r_running, r_pos, r_eos, x_exists, x_source,
                           x_relay, x_ended, x_queue, x_pc, x_recvd, x_hist>>
       ELSE LET st == MediaRelay_start(p)
                hist == HistAfterStart(p, st.proxies) IN
            /\ r_tasks' = st.tasks
            /\ r_running' = st.running
            /\ IF x_queue[p] = <<>>
               THEN /\ x_pc' = [x_pc EXCEPT ![p] = "waiting"]
                    /\ r_proxies' = st.proxies
                    /\ x_hist' = [x_hist EXCEPT ![p] = hist]
                    /\ UNCHANGED <<x_source, x_relay, x_ended, x_queue, x_result, x_recvd>>
               ELSE RelayTake(p, st.proxies, hist)
            /\ UNCHANGED <<r_keys, r_pos, r_eos, x_exists>>

\* A recv() suspended in _queue.get() resumes once the queue holds an item.
RelayStreamTrack_recv_resume(p) ==
    /\ p \in x_exists
    /\ x_pc[p] = "waiting"
    /\ x_queue[p] # <<>>
    /\ RelayTake(p, r_proxies, x_hist[p])
    /\ UNCHANGED <<r_keys, r_tasks, r_running, r_pos, r_eos, x_exists>>

\* RelayStreamTrack.stop called by the consumer, at any time.
RelayStreamTrack_stop(p) ==
    /\ p \in x_exists
    /\ x_ended' = [x_ended EXCEPT ![p] = TRUE]
    /\ r_proxies' = IF x_relay[p] THEN MediaRelay_stop(p, r_proxies) ELSE r_proxies
    /\ x_relay' = [x_relay EXCEPT ![p] = FALSE]
    /\ x_source' = IF x_relay[p] THEN [x_source EXCEPT ![p] = 0] ELSE x_source
    /\ UNCHANGED <<r_keys, r_tasks, r_running, r_pos, r_eos, x_exists, x_queue, x_pc,
                   x_result, x_recvd, x_hist>>

\* ---------------------------------------------------------------- relay properties

\* The frames source s returned after the first n of them, up to now / up to its end.
EmittedFrom(s, n) == SubSeq(Emitted(s), n + 1, r_pos[s])
AllFramesFrom(s, n) == SubSeq(AllFrames(s), n + 1, NumFrames)

\* p has called recv() at least once.
Called(p) == x_pc[p] = "waiting" \/ x_result[p] # "none"

\* p's consumer called stop() before p's recv() consumed the sentinel.
StoppedByConsumer(p) == x_ended[p] /\ ~x_hist[p].eos

\* p was put in the active set and its consumer has not stopped it.
ActiveUnstopped(p) == p \in x_exists /\ x_hist[p].regAt >= 0 /\ ~StoppedByConsumer(p)

\* The number of frames the source had returned when a, active until then, was
\* stopped: a was handed every frame from its activation to its stop.
StopPos(a) == x_hist[a].regAt + Len(x_recvd[a]) + Len(FramesOf(x_queue[a]))

\* C1 as stated: every proxy subscribed before the fan-out task broadcast its
\* first frame has, when its recv() fails with stream-ended at the sentinel,
\* received exactly f1..fk.
C1_SubscribedEarlyGetsAll ==
    \A p \in x_exists :
        (x_hist[p].early /\ x_hist[p].eos)
            => x_recvd[p] = AllFrames(x_hist[p].origin)

\* C1 amended: every proxy whose first recv() call (which is what puts it in the
\* active set) came before the fan-out task broadcast its first frame, and whose
\* consumer does not stop it, is handed every frame the source has returned, in
\* order; when its recv() consumes the sentinel it has received exactly f1..fk
\* and the track is ended.
C1_ActiveEarlyGetsAll ==
    \A p \in x_exists :
        (ActiveUnstopped(p) /\ x_hist[p].regAt = 0)
            => /\ x_recvd[p] \o FramesOf(x_queue[p]) = Emitted(x_hist[p].origin)
               /\ x_hist[p].eos => (x_recvd[p] = AllFrames(x_hist[p].origin) /\ x_ended[p])

\* Two proxies, both active before the first frame, have both seen f1..fk and the end.
C1_Witness ==
    \E p, q \in x_exists :
        /\ p # q
        /\ \A z \in {p, q} : /\ x_hist[z].regAt = 0 /\ x_hist[z].eos
                              /\ x_recvd[z] = AllFrames(x_hist[z].origin)
                              /\ x_result[z] = "MediaStreamError"

\* C2: what a proxy b observes is fixed by the source's emissions and by b's own
\* activation point alone: as long as b's own consumer has not stopped it, b has
\* been handed exactly the frames the source returned since b became active, and
\* at the sentinel it has received all of them, whichever other proxies were
\* stopped and whenever.  The sequence is hence the one of the run without the stop.
C2_StopLeavesOthersAlone ==
    \A b \in x_exists :
        ActiveUnstopped(b)
            => /\ x_recvd[b] \o FramesOf(x_queue[b])
                    = EmittedFrom(x_hist[b].origin, x_hist[b].regAt)
               /\ x_hist[b].eos
                    => x_recvd[b] = AllFramesFrom(x_hist[b].origin, x_hist[b].regAt)

\* Proxy a was stopped while b was active, and b went on to receive a frame the
\* source returned after that stop, and then the end.
C2_Witness ==
    \E a, b \in x_exists :
        /\ a # b
        /\ x_hist[a].regAt >= 0 /\ StoppedByConsumer(a)
        /\ ActiveUnstopped(b)
        /\ x_hist[b].regAt <= StopPos(a)
        /\ StopPos(a) < NumFrames
        /\ x_hist[b].eos
        /\ Len(x_recvd[b]) = NumFrames - x_hist[b].regAt

\* r is a contiguous run of e.
IsRunOf(r, e) ==
    \E i \in 0..Len(e) :
        /\ i + Len(r) <= Len(e)
        /\ \A j \in 1..Len(r) : r[j] = e[i + j]

\* C3: the frames a proxy's recv() calls returned are a contiguous run of the
\* frames the source returned to the fan-out task, in the same order, each the
\* source's own frame object.
C3_ContiguousRun ==
    \A p \in x_exists : IsRunOf(x_recvd[p], Emitted(x_hist[p].origin))

\* One proxy has received two frames, another one a run that starts later.
C3_Witness ==
    \E p, q \in x_exists :
        /\ Len(x_recvd[p]) >= 2
        /\ Len(x_recvd[q]) >= 1
        /\ x_recvd[q][1] # x_recvd[p][1]

\* C5: at most one fan-out task runs for a source, and none runs as long as no
\* proxy of the source has called recv().
C5_AtMostOneTask ==
    \A s \in Sources :
        /\ r_running[s] <= 1
        /\ (\A p \in x_exists : x_hist[p].origin = s => ~Called(p))
              => r_running[s] = 0

\* Two proxies are in the active set of a source and one task runs for it.
C5_Witness ==
    \E s \in Sources : Cardinality(r_proxies[s]) >= 2 /\ r_running[s] = 1

\* ---------------------------------------------------------------- relay runs
Subscribe ==
    /\ InRelay
    /\ \E s \in Sources :
          /\ Cardinality(x_exists) < MaxProxies
          /\ MediaRelay_subscribe(Cardinality(x_exists) + 1, s)
ProxyRecv == InRelay /\ \E p \in ProxyIds : RelayStreamTrack_recv(p)
ProxyRecvResume == InRelay /\ \E p \in ProxyIds : RelayStreamTrack_recv_resume(p)
ProxyStop == InRelay /\ \E p \in ProxyIds : RelayStreamTrack_stop(p)
FanOut == InRelay /\ \E s \in Sources : MediaRelay_run_track(s)

RelayNext == Subscribe \/ ProxyRecv \/ ProxyRecvResume \/ ProxyStop \/ FanOut

\* ================================================================ MediaPlayer

MaxDecoded == 3          \* frames the decoder yields before it can only end
VideoPtsBase == 7        \* pts of the first decoded video frame
VideoPtsStep == 3        \* pts distance of consecutive decoded video frames
AudioSamplesPerFrame == 960   \* int(audio_sample_rate * AUDIO_PTIME)
AudioSampleRate == 48000

\* Wall-clock and media time are counted in ticks of 10 ms.
TicksPerSecond == 100
SleepEagain == TicksPerSecond \div 100     \* time.sleep(0.01)
SleepThrottle == TicksPerSecond \div 10    \* time.sleep(0.1)
ThrottleLead == TicksPerSecond             \* frame_time > elapsed_time + 1
SleepCap == TicksPerSecond                 \* time.sleep(1)
VideoTimeBase == 50      \* ticks of one unit of video pts (the stream's time_base)
MaxWait == 2             \* EAGAIN is raised only before this tick of a timed run
\* frame.time of an audio and of a video frame, in ticks.
AudioTicks(pts) == (pts * TicksPerSecond) \div AudioSampleRate
VideoTicks(pts) == pts * VideoTimeBase

Tracks == {"audio", "video"}
\* Sample counts of the audio frames the decoder (and resampler) can deliver.
AudioSizes == {AudioSamplesPerFrame \div 2, AudioSamplesPerFrame + AudioSamplesPerFrame \div 2}
\* Values the consumer passes to set_max_frame_to_decode (<= 0 is no limit).
CapValues == {-1, 1}
NoPts == -1

\* Items of a PlayerStreamTrack queue: frames, and NoItem for the None sentinel.
NoItem == [kind |-> "none", idx |-> 0, pts |-> 0]
AudioItem(k) == [kind |-> "audio", idx |-> k, pts |-> AudioSamplesPerFrame * k]
VideoItem(i, pts) == [kind |-> "video", idx |-> i, pts |-> pts]

RECURSIVE ItemsOf(_)
ItemsOf(q) ==
    IF q = <<>> THEN <<>>
    ELSE IF Head(q) # NoItem THEN <<Head(q)>> \o ItemsOf(Tail(q))
    ELSE ItemsOf(Tail(q))

RECURSIVE SentinelsIn(_)
SentinelsIn(q) ==
    IF q = <<>> THEN 0
    ELSE (IF Head(q) = NoItem THEN 1 ELSE 0) + SentinelsIn(Tail(q))

\* player_worker's locals at its start, with the decoder position `dec`, `vidx`
\* of the container it is given.
FreshWorker(dec, vidx) ==
    [pc |-> "check",
     frame |-> NoItem,        \* the decoded frame in hand
     samples |-> 0,           \* its sample count when it is an audio frame
     fifo |-> 0,              \* samples held by audio_fifo
     audio_samples |-> 0,
     aread |-> 0,             \* frames read from audio_fifo so far
     first_set |-> FALSE,     \* video_first_pts is not None
     first_pts |-> 0,
     ftime |-> FALSE,         \* frame_time is truthy (set and not 0)
     ftick |-> 0,             \* frame_time in ticks (timed run)
     now |-> 0,               \* time.time() - start_time in ticks (timed run)
     dec |-> dec,             \* frames the container has decoded
     vidx |-> vidx,           \* video frames it has decoded (the next frame.index)
     end |-> "running"]       \* how the thread left its loop: "break" or "quit"

NoWorker == [FreshWorker(0, 0) EXCEPT !.pc = "none"]

\* The thread function returns: its locals are gone, the decoder keeps its place.
WorkerReturn(c, how) ==
    [c EXCEPT !.w = [FreshWorker(c.w.dec, c.w.vidx) EXCEPT !.pc = "done", !.end = how]]

PlayerInit ==
    /\ m_tracks \in {{"audio"}, {"video"}, {"audio", "video"}}
    /\ m_throttle \in BOOLEAN
    /\ m_container = "open"
    /\ m_thread = FALSE
    /\ m_quit = FALSE
    /\ m_started = {}
    /\ m_max = -1
    /\ wk = NoWorker
    /\ w_alive = 0
    /\ handoff = <<>>
    /\ t_ended = [t \in Tracks |-> FALSE]
    /\ t_player = [t \in Tracks |-> t \in m_tracks]
    /\ t_queue = [t \in Tracks |-> <<>>]
    /\ t_pc = [t \in Tracks |-> "idle"]
    /\ t_hold = [t \in Tracks |-> NoItem]
    /\ t_paced = [t \in Tracks |-> FALSE]
    /\ t_result = [t \in Tracks |-> "none"]
    /\ t_recvd = [t \in Tracks |-> <<>>]
    /\ t_eos = [t \in Tracks |-> FALSE]
    /\ h_handed = [t \in Tracks |-> <<>>]

\* ---------------------------------------------------------------- player_worker
\* The player's mutable state as one value, so that a handler that calls another
\* is the composition of the two.  The thread changes w, ho and hd only.
PS == [started |-> m_started, thread |-> m_thread, quit |-> m_quit,
       container |-> m_container, alive |-> w_alive,
       w |-> wk, ho |-> handoff, hd |-> h_handed]

SetPlayer(s) ==
    /\ m_started' = s.started
    /\ m_thread' = s.thread
    /\ m_quit' = s.quit
    /\ m_container' = s.container
    /\ w_alive' = s.alive
    /\ wk' = s.w
    /\ handoff' = s.ho
    /\ h_handed' = s.hd

\* time.sleep(n) in the thread, and the frame_time a hand-off leaves behind; a
\* run that does not follow the clock keeps both at 0.
Sleep(c, n) == IF Timed THEN [c EXCEPT !.w.now = @ + n] ELSE c
FrameTime(ticks) == IF Timed THEN ticks ELSE 0

\* A handoff that runs the submitted coroutines latest first.
Hand_Lifo(c, t, item) ==
    [c EXCEPT !.ho = <<[track |-> t, item |-> item]>> \o @,
              !.hd[t] = Append(@, item)]

\* run_coroutine_threadsafe(track._queue.put(item), loop)
Hand(c, t, item) ==
    [c EXCEPT !.ho = Append(@, [track |-> t, item |-> item]),
              !.hd[t] = Append(@, item)]

\* The frames container.decode(*streams) can yield next: one of a selected stream.
Decodable(c) ==
    (IF "audio" \in m_tracks
     THEN {[kind |-> "audio", idx |-> 0, pts |-> 0, samples |-> n] : n \in AudioSizes}
     ELSE {})
    \cup
    (IF "video" \in m_tracks
     THEN {[kind |-> "video", idx |-> c.w.vidx, pts |-> p, samples |-> 0] :
              p \in {NoPts, VideoPtsBase + VideoPtsStep * c.w.vidx}}
     ELSE {})

\* `while not quit_event.is_set()`
WorkerCheck(c, quit) ==
    IF quit THEN {WorkerReturn(c, "quit")}
    ELSE {[c EXCEPT !.w.pc = "decode"]}

\* What next(container.decode(..)) can raise: StopIteration at the end of the
\* stream, and av.AVError, which is EAGAIN or a decode error.
DecodeExceptions == {"StopIteration", "AVError:EAGAIN", "AVError:other"}

\* The except clause for an exception other than EAGAIN: None for every track
\* the player has, then break.
WorkerEnd_AudioOnly(c, exc) ==
    LET a == IF "audio" \in m_tracks THEN Hand(c, "audio", NoItem) ELSE c IN
    WorkerReturn(a, "break")

WorkerEnd(c, exc) ==
    LET a == IF "audio" \in m_tracks THEN Hand(c, "audio", NoItem) ELSE c
        v == IF "video" \in m_tracks THEN Hand(a, "video", NoItem) ELSE a IN
    WorkerReturn(v, "break")

\* `if throttle_playback: ... if frame_time and frame_time > elapsed_time + 1`:
\* where the thread goes with a decoded frame.  Without a clock either outcome
\* of the comparison is possible.
ThrottleChoice(c) ==
    IF ~(m_throttle /\ c.w.ftime) THEN {"dispatch"}
    ELSE IF ~Timed THEN {"throttle", "dispatch"}
    ELSE IF c.w.ftick > c.w.now + ThrottleLead THEN {"throttle"}
    ELSE {"dispatch"}

\* `frame = next(container.decode(*streams))` with its except clause; a decoded
\* frame then passes the read-ahead throttle, which may sleep first.
WorkerDecode(c) ==
    {IF exc = "AVError:EAGAIN" THEN [c EXCEPT !.w.pc = "eagain"] ELSE WorkerEnd(c, exc) :
        exc \in IF Timed /\ c.w.now >= MaxWait THEN DecodeExceptions \ {"AVError:EAGAIN"}
                ELSE DecodeExceptions}
    \cup (IF c.w.dec < MaxDecoded
          THEN {[c EXCEPT !.w.pc = p,
                          !.w.frame = [kind |-> f.kind, idx |-> f.idx, pts |-> f.pts],
                          !.w.samples = f.samples,
                          !.w.dec = @ + 1,
                          !.w.vidx = IF f.kind = "video" THEN @ + 1 ELSE @] :
                    f \in Decodable(c),
                    p \in ThrottleChoice(c)}
          ELSE {})

\* A read loop that stops after the first frame it read.
AudioDrain_Once(c) ==
    IF c.w.fifo >= AudioSamplesPerFrame
    THEN LET item == AudioItem(c.w.aread) IN
         [Hand(c, "audio", item) EXCEPT
             !.w.fifo = @ - AudioSamplesPerFrame,
             !.w.aread = @ + 1,
             !.w.ftime = (item.pts # 0),
             !.w.ftick = FrameTime(AudioTicks(item.pts))]
    ELSE c

\* The audio branch: fix the timestamp, write to the fifo, hand over every whole
\* frame of AudioSamplesPerFrame samples the fifo holds.
RECURSIVE AudioDrain(_)
AudioDrain(c) ==
    IF c.w.fifo >= AudioSamplesPerFrame
    THEN LET item == AudioItem(c.w.aread) IN
         AudioDrain([Hand(c, "audio", item) EXCEPT
                        !.w.fifo = @ - AudioSamplesPerFrame,
                        !.w.aread = @ + 1,
                        !.w.ftime = (item.pts # 0),
                        !.w.ftick = FrameTime(AudioTicks(item.pts))])
    ELSE c

WorkerAudio(c) ==
    AudioDrain([c EXCEPT !.w.audio_samples = @ + c.w.samples,
                         !.w.fifo = @ + c.w.samples,
                         !.w.pc = "check",
                         !.w.frame = NoItem,
                         !.w.samples = 0])

\* A video branch that hands the frame over with the pts the decoder gave it.
WorkerVideo_NoRebase(c) ==
    LET f == c.w.frame
        done == [c EXCEPT !.w.pc = "check", !.w.frame = NoItem] IN
    IF f.pts = NoPts THEN done
    ELSE [Hand(done, "video", VideoItem(f.idx, f.pts)) EXCEPT
             !.w.first_set = TRUE,
             !.w.first_pts = f.pts,
             !.w.ftime = (f.pts # 0),
             !.w.ftick = FrameTime(VideoTicks(f.pts))]

\* The video branch after the max_frame_to_decode wait: a frame without pts is
\* skipped, the others are rebased on the first pts and handed over.
WorkerVideo(c) ==
    LET f == c.w.frame
        first == IF c.w.first_set THEN c.w.first_pts ELSE f.pts
        done == [c EXCEPT !.w.pc = "check", !.w.frame = NoItem] IN
    IF f.pts = NoPts THEN done
    ELSE [Hand(done, "video", VideoItem(f.idx, f.pts - first)) EXCEPT
             !.w.first_set = TRUE,
             !.w.first_pts = first,
             !.w.ftime = (f.pts - first # 0),
             !.w.ftick = FrameTime(VideoTicks(f.pts - first))]

\* Dispatch on the frame's type; a video frame beyond a positive
\* max_frame_to_decode first sleeps once.
WorkerDispatch(c) ==
    IF c.w.frame.kind = "audio" /\ "audio" \in m_tracks THEN {WorkerAudio(c)}
    ELSE IF c.w.frame.kind = "video" /\ "video" \in m_tracks
    THEN IF m_max > 0 /\ c.w.frame.idx > m_max
         THEN {[c EXCEPT !.w.pc = "capsleep"]}
         ELSE {WorkerVideo(c)}
    ELSE {[c EXCEPT !.w.pc = "check", !.w.frame = NoItem]}

\* A max_frame_to_decode wait that sleeps again while the frame is beyond the
\* cap, without looking at quit.
WorkerCapWake_SleepsOn(c, quit) ==
    IF m_max > 0 /\ c.w.frame.idx > m_max THEN {c} ELSE {WorkerVideo(c)}

\* After time.sleep(1): return when quit is set, else go on with the frame.
WorkerCapWake(c, quit) ==
    IF quit THEN {WorkerReturn(c, "quit")}
    ELSE {WorkerVideo(Sleep(c, SleepCap))}

\* An EAGAIN branch that sleeps and then falls through to the end of the stream.
WorkerRetry_Breaks(c) == {WorkerEnd(c, "AVError:EAGAIN")}

\* The EAGAIN branch of the except clause: `time.sleep(0.01); continue`.
WorkerRetry(c) == {Sleep([c EXCEPT !.w.pc = "check"], SleepEagain)}

\* The read-ahead throttle's `time.sleep(0.1)`, once, then on with the frame.
WorkerThrottle(c) == {Sleep([c EXCEPT !.w.pc = "dispatch"], SleepThrottle)}

\* The configurations one step of the thread leads to.
WorkerSucc(c, quit) ==
    CASE c.w.pc = "check" -> WorkerCheck(c, quit)
      [] c.w.pc = "decode" -> WorkerDecode(c)
      [] c.w.pc = "eagain" -> WorkerRetry(c)
      [] c.w.pc = "throttle" -> WorkerThrottle(c)
      [] c.w.pc = "dispatch" -> WorkerDispatch(c)
      [] c.w.pc = "capsleep" -> WorkerCapWake(c, quit)
      [] OTHER -> {}

WorkerRunning(w) == w.pc \notin {"none", "done"}

\* __thread.join() after __thread_quit.set(): the thread runs on, the loop being
\* blocked, until it returns.
RECURSIVE JoinOutcomes(_)
JoinOutcomes(c) ==
    IF ~WorkerRunning(c.w) THEN {c}
    ELSE UNION {JoinOutcomes(d) : d \in WorkerSucc(c, TRUE)}

\* ---------------------------------------------------------------- MediaPlayer

\* MediaPlayer._start: the track joins the started set; without a thread one is
\* created and started, after a debug log that reads __container.name and so
\* raises AttributeError once the container is None.
MediaPlayer_start_AlwaysSpawns(t, s) ==
    LET a == [s EXCEPT !.started = @ \cup {t}] IN
    IF s.container = "closed" THEN [s |-> a, raised |-> TRUE]
    ELSE [s |-> [a EXCEPT !.thread = TRUE, !.quit = FALSE, !.alive = @ + 1,
                          !.w = FreshWorker(s.w.dec, s.w.vidx)],
          raised |-> FALSE]

MediaPlayer_start(t, s) ==
    LET a == [s EXCEPT !.started = @ \cup {t}] IN
    IF s.thread THEN [s |-> a, raised |-> FALSE]
    ELSE IF s.container = "closed" THEN [s |-> a, raised |-> TRUE]
    ELSE [s |-> [a EXCEPT !.thread = TRUE, !.quit = FALSE, !.alive = @ + 1,
                          !.w = FreshWorker(s.w.dec, s.w.vidx)],
          raised |-> FALSE]

\* The part of _stop after the discard: `idle` is what `not self.__started`
\* evaluates to.  The join lets the thread run until it returns.
StopTail(s, idle) ==
    LET joined == IF idle /\ s.thread
                  THEN {[d EXCEPT !.thread = FALSE, !.quit = TRUE,
                                  !.alive = IF WorkerRunning(s.w) THEN @ - 1 ELSE @] :
                           d \in JoinOutcomes(s)}
                  ELSE {s} IN
    {[d EXCEPT !.container = IF idle THEN "closed" ELSE @] : d \in joined}

\* A _stop that sets the quit flag and closes the container without joining.
MediaPlayer_stop_NoJoin(t, s) ==
    LET a == [s EXCEPT !.started = @ \ {t}] IN
    IF a.started = {}
    THEN {[a EXCEPT !.thread = FALSE, !.quit = @ \/ s.thread, !.container = "closed"]}
    ELSE {a}

\* A _stop that shuts the player down whenever any track stops.
MediaPlayer_stop_IgnoresOthers(t, s) == StopTail([s EXCEPT !.started = @ \ {t}], TRUE)

\* A _stop that tests the started set before it discards the track.
MediaPlayer_stop_TestsFirst(t, s) == StopTail([s EXCEPT !.started = @ \ {t}], s.started = {})

\* MediaPlayer._stop: discard the track; when no track is started any more, set
\* the quit flag, join the thread and forget it, then close the container.
MediaPlayer_stop(t, s) ==
    LET a == [s EXCEPT !.started = @ \ {t}] IN StopTail(a, a.started = {})

\* ---------------------------------------------------------------- PlayerStreamTrack

\* PlayerStreamTrack.stop from player state s: the track ends; the first call
\* tells the player and forgets it.
PlayerStop(t, s) ==
    /\ t_ended' = [t_ended EXCEPT ![t] = TRUE]
    /\ t_player' = [t_player EXCEPT ![t] = FALSE]
    /\ \E d \in (IF t_player[t] THEN MediaPlayer_stop(t, s) ELSE {s}) : SetPlayer(d)

\* recv() after `await self._queue.get()` returned: None stops the track and
\* raises MediaStreamError; a frame is returned, after a sleep when the player
\* throttles playback and a frame was returned before.
PlayerTake(t, s) ==
    LET item == Head(t_queue[t]) IN
    /\ t_queue' = [t_queue EXCEPT ![t] = Tail(@)]
    /\ IF item = NoItem
       THEN /\ PlayerStop(t, s)
            /\ t_pc' = [t_pc EXCEPT ![t] = "idle"]
            /\ t_result' = [t_result EXCEPT ![t] = "MediaStreamError"]
            /\ t_eos' = [t_eos EXCEPT ![t] = TRUE]
            /\ UNCHANGED <<t_hold, t_paced, t_recvd>>
       ELSE /\ SetPlayer(s)
            /\ IF t_player[t] /\ m_throttle /\ t_paced[t]
               THEN /\ t_pc' = [t_pc EXCEPT ![t] = "pacing"]
                    /\ t_hold' = [t_hold EXCEPT ![t] = item]
                    /\ UNCHANGED <<t_paced, t_recvd, t_result>>
               ELSE /\ t_pc' = [t_pc EXCEPT ![t] = "idle"]
                    /\ t_paced' = [t_paced EXCEPT ![t] = @ \/ (t_player[t] /\ m_throttle)]
                    /\ t_recvd' = [t_recvd EXCEPT ![t] = Append(@, item)]
                    /\ t_result' = [t_result EXCEPT ![t] = "frame"]
                    /\ UNCHANGED t_hold
            /\ UNCHANGED <<t_ended, t_player, t_eos>>

\* PlayerStreamTrack.recv up to its first suspension.
PlayerStreamTrack_recv(t) ==
    /\ t \in m_tracks
    /\ t_pc[t] = "idle"
    /\ IF RecvRaises(t_ended[t])
       THEN /\ t_result' = [t_result EXCEPT ![t] = "MediaStreamError"]
            /\ UNCHANGED <<m_started, m_thread, m_quit, m_container, wk, w_alive, handoff,
                           h_handed, t_ended, t_player, t_queue, t_pc, t_hold, t_paced,
                           t_recvd, t_eos>>
       ELSE LET st == IF t_player[t] THEN MediaPlayer_start(t, PS)
                      ELSE [s |-> PS, raised |-> TRUE]   \* None has no _start
            IN
            IF st.raised
            THEN /\ SetPlayer(st.s)
                 /\ t_result' = [t_result EXCEPT ![t] = "AttributeError"]
                 /\ UNCHANGED <<t_ended, t_player, t_queue, t_pc, t_hold, t_paced,
                                t_recvd, t_eos>>
            ELSE IF t_queue[t] = <<>>
            THEN /\ SetPlayer(st.s)
                 /\ t_pc' = [t_pc EXCEPT ![t] = "waiting"]
                 /\ UNCHANGED <<t_ended, t_player, t_queue, t_hold, t_paced, t_result,
                                t_recvd, t_eos>>
            ELSE PlayerTake(t, st.s)
    /\ UNCHANGED <<m_tracks, m_throttle, m_max>>

\* A recv() suspended in _queue.get() resumes once the queue holds an item.
PlayerStreamTrack_recv_resume(t) ==
    /\ t \in m_tracks
    /\ t_pc[t] = "waiting"
    /\ t_queue[t] # <<>>
    /\ PlayerTake(t, PS)
    /\ UNCHANGED <<m_tracks, m_throttle, m_max>>

\* A recv() suspended in asyncio.sleep(wait) returns its frame.
PlayerStreamTrack_recv_paced(t) ==
    /\ t \in m_tracks
    /\ t_pc[t] = "pacing"
    /\ t_pc' = [t_pc EXCEPT ![t] = "idle"]
    /\ t_recvd' = [t_recvd EXCEPT ![t] = Append(@, t_hold[t])]
    /\ t_hold' = [t_hold EXCEPT ![t] = NoItem]
    /\ t_result' = [t_result EXCEPT ![t] = "frame"]
    /\ UNCHANGED <<m_tracks, m_throttle, m_container, m_thread, m_quit, m_started, m_max,
                   wk, w_alive, handoff, t_ended, t_player, t_queue, t_paced, t_eos,
                   h_handed>>

\* PlayerStreamTrack.stop called by the consumer, at any time.
PlayerStreamTrack_stop(t) ==
    /\ t \in m_tracks
    /\ PlayerStop(t, PS)
    /\ UNCHANGED <<m_tracks, m_throttle, m_max, t_queue, t_pc, t_hold, t_paced, t_result,
                   t_recvd, t_eos>>

\* PlayerStreamTrack.set_max_frame_to_decode on the video track.
PlayerStreamTrack_set_max_frame_to_decode(frame_num) ==
    /\ "video" \in m_tracks
    /\ m_max # frame_num
    /\ m_max' = frame_num
    /\ UNCHANGED <<m_tracks, m_throttle, m_container, m_thread, m_quit, m_started,
                   wk, w_alive, handoff, t_ended, t_player, t_queue, t_pc, t_hold,
                   t_paced, t_result, t_recvd, t_eos, h_handed>>

\* The loop runs the oldest _queue.put(item) the thread submitted.
QueuePut ==
    /\ InPlayer
    /\ handoff # <<>>
    /\ handoff' = Tail(handoff)
    /\ t_queue' = [t_queue EXCEPT ![Head(handoff).track] = Append(@, Head(handoff).item)]
    /\ UNCHANGED <<m_tracks, m_throttle, m_container, m_thread, m_quit, m_started, m_max,
                   wk, w_alive, t_ended, t_player, t_pc, t_hold, t_paced, t_result,
                   t_recvd, t_eos, h_handed>>

\* One step of the player_worker thread.
WorkerStep(pc) ==
    /\ wk.pc = pc
    /\ w_alive > 0
    /\ \E d \in WorkerSucc(PS, m_quit) :
          SetPlayer([d EXCEPT !.alive = IF WorkerRunning(d.w) THEN @ ELSE @ - 1])
    /\ UNCHANGED <<m_tracks, m_throttle, m_max, t_ended, t_player, t_queue, t_pc, t_hold,
                   t_paced, t_result, t_recvd, t_eos>>

player_worker_check == InPlayer /\ WorkerStep("check")
player_worker_decode == InPlayer /\ WorkerStep("decode")
player_worker_eagain == InPlayer /\ WorkerStep("eagain")
player_worker_throttle == InPlayer /\ WorkerStep("throttle")
player_worker_dispatch == InPlayer /\ WorkerStep("dispatch")
player_worker_capsleep == InPlayer /\ WorkerStep("capsleep")

TrackRecv == InPlayer /\ \E t \in Tracks : PlayerStreamTrack_recv(t)
TrackRecvResume == InPlayer /\ \E t \in Tracks : PlayerStreamTrack_recv_resume(t)
TrackRecvPaced == InPlayer /\ \E t \in Tracks : PlayerStreamTrack_recv_paced(t)
TrackStop == InPlayer /\ \E t \in Tracks : PlayerStreamTrack_stop(t)
TrackSetMax == InPlayer /\ \E n \in CapValues : PlayerStreamTrack_set_max_frame_to_decode(n)

PlayerNext ==
    \/ TrackRecv \/ TrackRecvResume \/ TrackRecvPaced \/ TrackStop \/ TrackSetMax
    \/ QueuePut
    \/ player_worker_check \/ player_worker_decode \/ player_worker_eagain
    \/ player_worker_throttle \/ player_worker_dispatch \/ player_worker_capsleep

\* ================================================================ MediaRecorder

MaxRecTracks == 2        \* tracks given to addTrack
RecFrames == 2           \* frames a recorded track returns before it ends

RecTracks == 1..MaxRecTracks

RecorderInit ==
    /\ k_container = "open"
    /\ k_tracks = <<>>
    /\ k_ctx = {}
    /\ k_task = [t \in RecTracks |-> "none"]
    /\ k_recvd = [t \in RecTracks |-> 0]
    /\ k_muxed = [t \in RecTracks |-> 0]
    /\ k_flushed = <<>>
    /\ k_failed = {}

RECURSIVE SeqRange(_)
SeqRange(q) == IF q = <<>> THEN {} ELSE {Head(q)} \cup SeqRange(Tail(q))

\* MediaRecorder.addTrack for a track not given to it before: a stream and a
\* context without task; with __container None the call raises AttributeError.
MediaRecorder_addTrack(t) ==
    /\ t \notin SeqRange(k_tracks)
    /\ k_task[t] = "none"
    /\ k_tracks' = IF k_container = "open" THEN Append(k_tracks, t) ELSE k_tracks
    /\ UNCHANGED <<k_container, k_ctx, k_task, k_recvd, k_muxed, k_flushed, k_failed>>

\* MediaRecorder.start: a task for every context that has none.
MediaRecorder_start ==
    /\ k_ctx' = SeqRange(k_tracks)
    /\ k_task' = [t \in RecTracks |->
                    IF t \in SeqRange(k_tracks) \ k_ctx THEN "waiting" ELSE k_task[t]]
    /\ UNCHANGED <<k_container, k_tracks, k_recvd, k_muxed, k_flushed, k_failed>>

\* Task.cancel(): a task that has not finished gets CancelledError at its await.
Cancel(state) == IF state = "waiting" THEN "cancelled" ELSE state

\* The contexts stop() finds with a task, in the order of __tracks.
WithTask(q) == SelectSeq(q, LAMBDA t : t \in k_ctx)

\* A stop() that flushes and closes without cancelling the tasks.
MediaRecorder_stop_NoCancel ==
    /\ k_container = "open"
    /\ k_flushed' = k_flushed \o WithTask(k_tracks)
    /\ k_tracks' = <<>>
    /\ k_ctx' = {}
    /\ k_container' = "closed"
    /\ UNCHANGED <<k_task, k_recvd, k_muxed, k_failed>>

\* MediaRecorder.stop: with a container, cancel every context's task, flush its
\* encoder into the container, forget the tracks and close the container; it
\* awaits nothing.
MediaRecorder_stop ==
    /\ k_container = "open"
    /\ k_task' = [t \in RecTracks |-> IF t \in k_ctx THEN Cancel(k_task[t]) ELSE k_task[t]]
    /\ k_flushed' = k_flushed \o WithTask(k_tracks)
    /\ k_tracks' = <<>>
    /\ k_ctx' = {}
    /\ k_container' = "closed"
    /\ UNCHANGED <<k_recvd, k_muxed, k_failed>>

\* MediaRecorder.__run_track, one turn: track.recv() returned a frame; it is
\* encoded and the packet muxed before the next await.  With __container None
\* the mux call raises AttributeError and the task is over.
MediaRecorder_run_track_frame(t) ==
    /\ k_task[t] = "waiting"
    /\ k_recvd[t] < RecFrames
    /\ k_recvd' = [k_recvd EXCEPT ![t] = @ + 1]
    /\ IF k_container = "open"
       THEN /\ k_muxed' = [k_muxed EXCEPT ![t] = @ + 1]
            /\ UNCHANGED <<k_task, k_failed>>
       ELSE /\ k_failed' = k_failed \cup {t}
            /\ k_task' = [k_task EXCEPT ![t] = "done"]
            /\ UNCHANGED k_muxed
    /\ UNCHANGED <<k_container, k_tracks, k_ctx, k_flushed>>

\* MediaRecorder.__run_track: track.recv() raised MediaStreamError, the task returns.
MediaRecorder_run_track_end(t) ==
    /\ k_task[t] = "waiting"
    /\ k_task' = [k_task EXCEPT ![t] = "done"]
    /\ UNCHANGED <<k_container, k_tracks, k_ctx, k_recvd, k_muxed, k_flushed, k_failed>>

\* A cancelled task is resumed with CancelledError at its await, which
\* __run_track does not catch.
MediaRecorder_run_track_cancelled(t) ==
    /\ k_task[t] = "cancelled"
    /\ k_task' = [k_task EXCEPT ![t] = "done"]
    /\ UNCHANGED <<k_container, k_tracks, k_ctx, k_recvd, k_muxed, k_flushed, k_failed>>

RecAddTrack == InRecorder /\ \E t \in RecTracks : MediaRecorder_addTrack(t)
RecStart == InRecorder /\ MediaRecorder_start
RecStop == InRecorder /\ MediaRecorder_stop
RecTaskFrame == InRecorder /\ \E t \in RecTracks : MediaRecorder_run_track_frame(t)
RecTaskEnd == InRecorder /\ \E t \in RecTracks : MediaRecorder_run_track_end(t)
RecTaskCancelled == InRecorder /\ \E t \in RecTracks : MediaRecorder_run_track_cancelled(t)

RecorderNext ==
    \/ RecAddTrack \/ RecStart \/ RecStop
    \/ RecTaskFrame \/ RecTaskEnd \/ RecTaskCancelled

\* ================================================================ MediaBlackhole

MaxBhTracks == 2         \* tracks given to addTrack
BhFrames == 1            \* frames a discarded track returns before it ends
MaxStops == 1            \* stop() calls made on the sink

BhTracks == 1..MaxBhTracks

BlackholeInit ==
    /\ b_tracks = {}
    /\ b_ref = [t \in BhTracks |-> 0]
    /\ b_tasks = [t \in BhTracks |-> <<>>]
    /\ b_pos = [t \in BhTracks |-> 0]
    /\ b_stops = 0

\* An addTrack that resets the entry of a track it already has.
MediaBlackhole_addTrack_NoGuard(t) ==
    /\ b_tracks' = b_tracks \cup {t}
    /\ b_ref' = [b_ref EXCEPT ![t] = 0]
    /\ UNCHANGED <<b_tasks, b_pos, b_stops>>

\* MediaBlackhole.addTrack: an entry None for a track the sink does not have.
MediaBlackhole_addTrack(t) ==
    /\ b_tracks' = b_tracks \cup {t}
    /\ b_ref' = [b_ref EXCEPT ![t] = IF t \in b_tracks THEN @ ELSE 0]
    /\ UNCHANGED <<b_tasks, b_pos, b_stops>>

\* MediaBlackhole.start: a blackhole_consume task for every entry that is None.
MediaBlackhole_start ==
    LET new == {t \in b_tracks : b_ref[t] = 0} IN
    /\ b_tasks' = [t \in BhTracks |->
                     IF t \in new THEN Append(b_tasks[t], "waiting") ELSE b_tasks[t]]
    /\ b_ref' = [t \in BhTracks |-> IF t \in new THEN Len(b_tasks[t]) + 1 ELSE b_ref[t]]
    /\ UNCHANGED <<b_tracks, b_pos, b_stops>>

\* MediaBlackhole.stop: cancel every task the sink holds, then forget all entries.
MediaBlackhole_stop ==
    /\ b_stops < MaxStops
    /\ b_stops' = b_stops + 1
    /\ b_tasks' = [t \in BhTracks |->
                     IF t \in b_tracks /\ b_ref[t] # 0
                     THEN [b_tasks[t] EXCEPT ![b_ref[t]] = Cancel(@)]
                     ELSE b_tasks[t]]
    /\ b_tracks' = {}
    /\ b_ref' = [t \in BhTracks |-> 0]
    /\ UNCHANGED b_pos

\* blackhole_consume, one turn: track.recv() returned a frame, which is dropped.
blackhole_consume_frame(t, i) ==
    /\ i \in DOMAIN b_tasks[t]
    /\ b_tasks[t][i] = "waiting"
    /\ b_pos[t] < BhFrames
    /\ b_pos' = [b_pos EXCEPT ![t] = @ + 1]
    /\ UNCHANGED <<b_tracks, b_ref, b_tasks, b_stops>>

\* blackhole_consume: track.recv() raised MediaStreamError, the task returns.
blackhole_consume_end(t, i) ==
    /\ i \in DOMAIN b_tasks[t]
    /\ b_tasks[t][i] = "waiting"
    /\ b_pos[t] = BhFrames
    /\ b_tasks' = [b_tasks EXCEPT ![t][i] = "done"]
    /\ UNCHANGED <<b_tracks, b_ref, b_pos, b_stops>>

\* A cancelled task is resumed with CancelledError at its await, which
\* blackhole_consume does not catch.
blackhole_consume_cancelled(t, i) ==
    /\ i \in DOMAIN b_tasks[t]
    /\ b_tasks[t][i] = "cancelled"
    /\ b_tasks' = [b_tasks EXCEPT ![t][i] = "done"]
    /\ UNCHANGED <<b_tracks, b_ref, b_pos, b_stops>>

\* Ordinals a task of one track can have.
BhTaskIds == 1..(MaxStops + 2)

BhAddTrack == InBlackhole /\ \E t \in BhTracks : MediaBlackhole_addTrack(t)
BhStart == InBlackhole /\ MediaBlackhole_start
BhStop == InBlackhole /\ MediaBlackhole_stop
BhTaskFrame == InBlackhole /\ \E t \in BhTracks, i \in BhTaskIds : blackhole_consume_frame(t, i)
BhTaskEnd == InBlackhole /\ \E t \in BhTracks, i \in BhTaskIds : blackhole_consume_end(t, i)
BhTaskCancelled ==
    InBlackhole /\ \E t \in BhTracks, i \in BhTaskIds : blackhole_consume_cancelled(t, i)

BlackholeNext ==
    \/ BhAddTrack \/ BhStart \/ BhStop
    \/ BhTaskFrame \/ BhTaskEnd \/ BhTaskCancelled

\* ---------------------------------------------------------------- specifications

\* A player whose container has neither an audio nor a video stream: no track.
PlayerOff ==
    /\ m_tracks = {}
    /\ m_throttle = FALSE
    /\ m_container = "open"
    /\ m_thread = FALSE
    /\ m_quit = FALSE
    /\ m_started = {}
    /\ m_max = -1
    /\ wk = NoWorker
    /\ w_alive = 0
    /\ handoff = <<>>
    /\ t_ended = [t \in Tracks |-> FALSE]
    /\ t_player = [t \in Tracks |-> FALSE]
    /\ t_queue = [t \in Tracks |-> <<>>]
    /\ t_pc = [t \in Tracks |-> "idle"]
    /\ t_hold = [t \in Tracks |-> NoItem]
    /\ t_paced = [t \in Tracks |-> FALSE]
    /\ t_result = [t \in Tracks |-> "none"]
    /\ t_recvd = [t \in Tracks |-> <<>>]
    /\ t_eos = [t \in Tracks |-> FALSE]
    /\ h_handed = [t \in Tracks |-> <<>>]

vars == <<scene, relayVars, playerVars, recorderVars, blackholeVars>>

InitRelay == scene = "relay" /\ RelayInit /\ PlayerOff /\ RecorderInit /\ BlackholeInit
InitPlayer == scene = "player" /\ RelayInit /\ PlayerInit /\ RecorderInit /\ BlackholeInit
InitRecorder == scene = "recorder" /\ RelayInit /\ PlayerOff /\ RecorderInit /\ BlackholeInit
InitBlackhole ==
    scene = "blackhole" /\ RelayInit /\ PlayerOff /\ RecorderInit /\ BlackholeInit
InitTimed == scene = "timed" /\ RelayInit /\ PlayerInit /\ RecorderInit /\ BlackholeInit

\* A relay with its proxies on one source.
SpecRelay == InitRelay /\ [][RelayNext]_vars
\* A player with its tracks and its decode thread.
SpecPlayer == InitPlayer /\ [][PlayerNext]_vars
\* A recorder with its tracks' tasks.
SpecRecorder == InitRecorder /\ [][RecorderNext]_vars
\* A player whose decode thread is followed on the wall clock.
SpecTimed == InitTimed /\ [][PlayerNext]_vars
\* A blackhole with its tracks' tasks.
SpecBlackhole == InitBlackhole /\ [][BlackholeNext]_vars
\* Either of them.
Init == InitRelay \/ InitPlayer \/ InitRecorder \/ InitTimed \/ InitBlackhole
Next == RelayNext \/ PlayerNext \/ RecorderNext \/ BlackholeNext
Spec == Init /\ [][Next]_vars

\* ---------------------------------------------------------------- player properties

\* recv() was called on track t at least once.
TrackCalled(t) == t_pc[t] # "idle" \/ t_result[t] # "none"

otherPlayerVars == <<m_tracks, m_throttle, m_container, m_thread, m_quit, m_started, m_max,
                     wk, w_alive, handoff, t_ended, t_player, t_queue, t_pc, t_hold,
                     t_paced, t_recvd, t_eos, h_handed>>
otherRelayVars == <<r_keys, r_proxies, r_tasks, r_running, r_pos, r_eos, x_exists, x_source,
                    x_relay, x_ended, x_queue, x_pc, x_recvd, x_hist>>

\* C4: a recv() call on a PlayerStreamTrack or RelayStreamTrack that is ended (by
\* stop() or by a recv() that consumed the sentinel) fails with MediaStreamError
\* and changes nothing else: no frame returned, no thread or task started.
C4_EndedRecvFails ==
    [][ /\ \A t \in Tracks :
             (t_ended[t] /\ PlayerStreamTrack_recv(t))
               => /\ t_result' = [t_result EXCEPT ![t] = "MediaStreamError"]
                  /\ UNCHANGED otherPlayerVars
        /\ \A p \in ProxyIds :
             (x_ended[p] /\ RelayStreamTrack_recv(p))
               => /\ x_result' = [x_result EXCEPT ![p] = "MediaStreamError"]
                  /\ UNCHANGED otherRelayVars ]_vars

\* A track stopped by its consumer, the player shut down, and a recv() on it
\* since then has failed.
C4_Witness ==
    \E t \in m_tracks :
        /\ t_ended[t] /\ ~t_eos[t]
        /\ t_result[t] = "MediaStreamError"
        /\ t_recvd[t] # <<>>
        /\ m_container = "closed"

\* C6: at most one decode thread of the player runs at any time, and none
\* before the first recv() on one of its tracks.
C6_AtMostOneThread ==
    /\ w_alive <= 1
    /\ (\A t \in m_tracks : ~TrackCalled(t)) => (w_alive = 0 /\ ~m_thread)

\* Both tracks are started and share the one running thread.
C6_Witness == m_started = Tracks /\ w_alive = 1 /\ WorkerRunning(wk)

C8_ClosedOnlyAfterJoin == ~(w_alive > 0 /\ m_container = "closed")

\* The container is closed after a thread that was told to quit has returned.
C8_Witness == m_container = "closed" /\ wk.end = "quit" /\ m_quit /\ w_alive = 0

\* C9: a step that takes the last track out of the started set leaves no thread
\* alive, the thread forgotten, the quit flag set if there was a thread, and the
\* container closed; a step that takes a track out while another stays started
\* changes neither the thread nor the container.
C9_LastStopShutsDown ==
    [][ (m_started' # m_started /\ m_started' \subseteq m_started)
          => IF m_started' = {}
             THEN /\ w_alive' = 0
                  /\ ~m_thread'
                  /\ m_thread => m_quit'
                  /\ m_container' = "closed"
             ELSE /\ m_container' = m_container
                  /\ m_thread' = m_thread
                  /\ m_quit' = m_quit
                  /\ w_alive' = w_alive
                  /\ wk' = wk ]_vars

\* Both tracks were started and have returned frames, one was stopped while the
\* thread still ran, and the stop of the other has shut the player down.
C9_Witness ==
    /\ m_tracks = Tracks
    /\ \A t \in Tracks : t_ended[t] /\ t_recvd[t] # <<>>
    /\ m_started = {}
    /\ wk.end = "quit"
    /\ m_container = "closed"

\* C10: once the decoder reports end-of-stream or a decode error the thread has
\* returned and has handed None, once and last, to every track of the player;
\* a track whose recv() consumes that None has before it returned every frame
\* the thread handed to it, in order, and is ended.
C10_EndReachesEveryTrack ==
    /\ wk.end = "break"
         => /\ wk.pc = "done"
            /\ \A t \in m_tracks :
                  /\ SentinelsIn(h_handed[t]) = 1
                  /\ h_handed[t][Len(h_handed[t])] = NoItem
    /\ \A t \in m_tracks :
         t_eos[t] => /\ wk.end = "break"
                     /\ t_recvd[t] = ItemsOf(h_handed[t])
                     /\ t_ended[t]
                     /\ t_result[t] = "MediaStreamError"

\* After the decoder raised both tracks have returned their frames and then failed.
C10_Witness ==
    /\ m_tracks = Tracks
    /\ wk.end = "break"
    /\ \A t \in Tracks : t_eos[t] /\ t_recvd[t] # <<>>

\* ---------------------------------------------------------------- handoff order

\* The items the thread submitted for track t that the loop has not yet put.
RECURSIVE InFlight(_, _)
InFlight(ho, t) ==
    IF ho = <<>> THEN <<>>
    ELSE (IF Head(ho).track = t THEN <<Head(ho).item>> ELSE <<>>) \o InFlight(Tail(ho), t)

\* The frame a recv() sleeping for pacing has taken and not yet returned.
Held(t) == IF t_pc[t] = "pacing" THEN <<t_hold[t]>> ELSE <<>>

NonDecreasingPts(q) == \A i \in 1..(Len(q) - 1) : q[i].pts <= q[i + 1].pts

\* C11: for each track, the frames recv() returned, the frame a pacing recv()
\* holds, the frames in the queue and the frames still in flight from the
\* thread are, in this order, exactly the frames the thread handed off, in
\* hand-off order; so the returned frames have non-decreasing presentation
\* times whenever the handed-off ones have.
C11_PerTrackFifo ==
    \A t \in m_tracks :
        /\ t_recvd[t] \o Held(t) \o ItemsOf(t_queue[t]) \o ItemsOf(InFlight(handoff, t))
              = ItemsOf(h_handed[t])
        /\ NonDecreasingPts(ItemsOf(h_handed[t])) => NonDecreasingPts(t_recvd[t])

\* The video track has returned two frames, the later with the later time, and
\* the audio track one.
C11_Witness ==
    /\ m_tracks = Tracks
    /\ Len(t_recvd["video"]) >= 2
    /\ t_recvd["video"][1].pts < t_recvd["video"][2].pts
    /\ Len(t_recvd["audio"]) >= 1

\* ---------------------------------------------------------------- timestamps

\* The pts the decoder gave the video frame with index i (when it gave one).
VideoOrigPts(i) == VideoPtsBase + VideoPtsStep * i

\* The video frames handed to the video track so far, in order.
VideoHanded == ItemsOf(h_handed["video"])

\* The thread holds a decoded video frame that has no pts.
HoldsVideoWithoutPts == wk.frame.kind = "video" /\ wk.frame.pts = NoPts

\* C12: the first frame handed to the video track has pts 0 and every handed
\* frame has its original pts minus the original pts of that first frame, so
\* the handed pts increase as the original ones do; a step taken while the
\* thread holds a frame without pts hands nothing over, does not end the stream
\* and, unless the thread returns, leaves the origin as it was.
C12_VideoPtsRebased ==
    /\ [](("video" \in m_tracks /\ VideoHanded # <<>>)
            => /\ VideoHanded[1].pts = 0
               /\ \A i \in 1..Len(VideoHanded) :
                     VideoHanded[i].pts
                        = VideoOrigPts(VideoHanded[i].idx) - VideoOrigPts(VideoHanded[1].idx)
               /\ \A i \in 1..(Len(VideoHanded) - 1) :
                     VideoHanded[i].pts < VideoHanded[i + 1].pts)
    /\ [][HoldsVideoWithoutPts
            => /\ h_handed' = h_handed
               /\ wk'.end # "break"
               /\ (wk'.pc # "done"
                     => wk'.first_set = wk.first_set /\ wk'.first_pts = wk.first_pts)]_vars

\* The frame with index 0 had no pts and was dropped; the next two frames were
\* handed over, the first of them with pts 0.
C12_Witness ==
    /\ "video" \in m_tracks
    /\ Len(VideoHanded) >= 2
    /\ VideoHanded[1].idx = 1
    /\ VideoHanded[1].pts = 0
    /\ VideoHanded[2].pts = VideoPtsStep

\* The audio frames handed to the audio track so far, in order.
AudioHanded == ItemsOf(h_handed["audio"])

\* C13: the k-th frame handed to the audio track (k = 0, 1, ...) has pts
\* AudioSamplesPerFrame * k; each takes exactly AudioSamplesPerFrame samples out
\* of the fifo, so the samples written are those handed over plus the rest,
\* less than one frame, that stays in the fifo.
C13_AudioFramesRegular ==
    "audio" \in m_tracks
        => /\ \A k \in 1..Len(AudioHanded) :
                 /\ AudioHanded[k].kind = "audio"
                 /\ AudioHanded[k].idx = k - 1
                 /\ AudioHanded[k].pts = AudioSamplesPerFrame * (k - 1)
           /\ WorkerRunning(wk)
                 => /\ wk.audio_samples = AudioSamplesPerFrame * Len(AudioHanded) + wk.fifo
                    /\ wk.fifo >= 0
                    /\ wk.fifo < AudioSamplesPerFrame
                    /\ wk.aread = Len(AudioHanded)

\* Three decoded audio frames of 1440, 1440 and 480 samples gave three frames
\* and left half a frame in the fifo.
C13_Witness ==
    /\ "audio" \in m_tracks
    /\ WorkerRunning(wk)
    /\ Len(AudioHanded) = 3
    /\ AudioHanded[3].pts = 2 * AudioSamplesPerFrame
    /\ wk.fifo = AudioSamplesPerFrame \div 2

\* ---------------------------------------------------------------- decode cap

\* The items a step adds to what the thread handed to the video track.
NewVideoHanded ==
    SubSeq(h_handed'["video"], Len(h_handed["video"]) + 1, Len(h_handed'["video"]))

\* C14: while the cap is positive, no step hands the video track a frame whose
\* index is beyond the cap.
C14_NoFrameBeyondCap ==
    [][m_max > 0
         => \A i \in 1..Len(NewVideoHanded) :
               NewVideoHanded[i] # NoItem => NewVideoHanded[i].idx <= m_max]_vars

\* ---------------------------------------------------------------- recorder properties

SentinelLast(q, none) == \A i \in 1..(Len(q) - 1) : q[i] # none

\* The end sentinels put in proxy p's queue so far: the one its recv() consumed
\* and those still queued.
RelaySentinels(p) ==
    (IF x_hist[p].eos THEN 1 ELSE 0) + (Len(x_queue[p]) - Len(FramesOf(x_queue[p])))

\* C16: the end sentinel is enqueued at most once for any PlayerStreamTrack or
\* RelayStreamTrack, and nothing is enqueued after it.
C16_SentinelOnce ==
    /\ \A t \in Tracks :
          /\ SentinelsIn(h_handed[t]) <= 1
          /\ SentinelLast(h_handed[t], NoItem)
    /\ \A p \in x_exists :
          /\ RelaySentinels(p) <= 1
          /\ SentinelLast(x_queue[p], None)

\* ---------------------------------------------------------------- C17

\* p was created by subscribe() after the fan-out task broadcast the sentinel of
\* its source.
Late(p) == p \in x_exists /\ x_hist[p].late

InEagain == w_alive > 0 /\ wk.pc = "eagain"

\* C19: an EAGAIN of the decoder neither ends the stream nor shows: the step
\* that gets it and every step taken while the thread sleeps on it hand nothing
\* to any track (no frame, no sentinel), the thread does not break out of its
\* loop but goes back to the loop head with its locals as they were (or returns
\* because quit is set), and a recv() that fails meanwhile is one of a track
\* that was stopped before.  This holds for every such step, so for any number
\* of EAGAINs in a row.
C19_EagainRetried ==
    [][/\ (wk.pc = "decode" /\ wk'.pc = "eagain") =>
              /\ wk' = [wk EXCEPT !.pc = "eagain"]
              /\ h_handed' = h_handed
              /\ handoff' = handoff
              /\ w_alive' = w_alive
              /\ t_result' = t_result
       /\ InEagain =>
              /\ h_handed' = h_handed
              /\ wk'.end # "break"
              /\ \/ wk' = wk
                 \/ wk' = [wk EXCEPT !.pc = "check"]
                 \/ m_quit' /\ wk'.end = "quit"
              /\ \A t \in Tracks :
                     (t_result'[t] # t_result[t] /\ t_result'[t] # "frame") => t_ended[t]
      ]_vars

\* The thread sleeps on an EAGAIN after it handed a frame over, while a recv()
\* waits for the next one.
C19_Witness ==
    /\ InEagain
    /\ \E t \in Tracks : ItemsOf(h_handed[t]) # <<>>
    /\ \E t \in Tracks : t_pc[t] = "waiting" /\ t_queue[t] = <<>>

\* ---------------------------------------------------------------- C20

\* The places of the thread's loop: the loop head, the decode call, and the
\* sleeps after EAGAIN, of the read-ahead throttle and of max_frame_to_decode.
WorkerPcs == {"check", "decode", "eagain", "throttle", "dispatch", "capsleep"}

\* With quit set, the thread in configuration c has returned after at most n of
\* its own steps, whatever the decoder yields; no step of the loop is involved.
RECURSIVE ReturnsWithin(_, _)
ReturnsWithin(c, n) ==
    \/ ~WorkerRunning(c.w)
    \/ /\ n > 0
       /\ WorkerSucc(c, TRUE) # {}
       /\ \A d \in WorkerSucc(c, TRUE) : ReturnsWithin(d, n - 1)

\* C20: wherever the running thread is, once quit is set it returns after
\* finitely many of its own steps (it passes no place of its loop twice), so
\* the join of _stop completes: when quit is set and _stop is over, no thread is
\* alive.  A thread that returns because it saw quit hands no sentinel over.
C20_QuitEndsWorker ==
    /\ [](w_alive > 0 => /\ wk.pc \in WorkerPcs
                         /\ ReturnsWithin(PS, Cardinality(WorkerPcs))
                         /\ JoinOutcomes(PS) # {}
                         /\ \A d \in JoinOutcomes(PS) : d.w.pc = "done")
    /\ [](m_quit => w_alive = 0 /\ ~m_thread /\ wk.pc = "done")
    /\ [][(wk.end # "quit" /\ wk'.end = "quit") =>
              /\ m_quit'
              /\ \A t \in Tracks : SentinelsIn(h_handed'[t]) = SentinelsIn(h_handed[t])]_vars

\* _stop set quit and joined the thread, which returned because it saw quit, in
\* a player whose decoder had gone beyond a positive max_frame_to_decode.
C20_Witness ==
    /\ m_quit
    /\ w_alive = 0
    /\ wk.end = "quit"
    /\ m_max > 0
    /\ wk.vidx > m_max

\* ---------------------------------------------------------------- C21

\* The thread handed a frame to a track in this step and runs on.
HandsFrame ==
    /\ WorkerRunning(wk) /\ WorkerRunning(wk')
    /\ \E t \in Tracks : ItemsOf(h_handed'[t]) # ItemsOf(h_handed[t])

\* C21: for a source that is not real-time the throttle bounds the run-ahead of
\* the thread by a constant that does not depend on the length of the stream:
\* the thread hands a frame over only once the clock is within ThrottleLead of
\* the frame handed before it (so the newest handed frame is never further
\* ahead than ThrottleLead plus the distance of two consecutive frames); for a
\* real-time source the thread never sleeps for throttling.
C21_ThrottleBoundsRunAhead ==
    /\ [](~m_throttle => wk.pc # "throttle")
    /\ [][(Timed /\ m_throttle /\ HandsFrame) => wk.ftick <= wk'.now + ThrottleLead]_vars

\* ---------------------------------------------------------------- C22

\* Tasks of track t that can still call track.recv().
BhLive(t) == {i \in DOMAIN b_tasks[t] : b_tasks[t][i] = "waiting"}

\* C22: for any sequence of addTrack(), start() and stop() calls, a track has at
\* most one discard task, and it is the one the sink holds; a task is made only
\* for a track of the sink that has none; a task whose track.recv() raises
\* MediaStreamError returns; and stop() leaves every task it held cancelled or
\* finished and the sink without track and task.
C22_BlackholeTasks ==
    /\ [](\A t \in BhTracks :
             /\ Cardinality(BhLive(t)) <= 1
             /\ BhLive(t) \subseteq {b_ref[t]}
             /\ b_ref[t] # 0 => t \in b_tracks /\ b_ref[t] = Len(b_tasks[t])
             /\ \A i \in DOMAIN b_tasks[t] :
                    (b_tasks[t][i] = "done" /\ i = b_ref[t]) => b_pos[t] = BhFrames)
    /\ [][/\ \A t \in BhTracks :
                Len(b_tasks'[t]) # Len(b_tasks[t])
                    => /\ MediaBlackhole_start
                       /\ t \in b_tracks /\ b_ref[t] = 0
                       /\ Len(b_tasks'[t]) = Len(b_tasks[t]) + 1
          /\ \A t \in BhTracks : \A i \in BhTaskIds :
                blackhole_consume_end(t, i) => b_tasks'[t][i] = "done"
          /\ MediaBlackhole_stop =>
                /\ b_tracks' = {}
                /\ \A t \in BhTracks :
                       /\ b_ref'[t] = 0
                       /\ BhLive(t)' = {}
                       /\ b_ref[t] # 0 => b_tasks'[t][b_ref[t]] \in {"cancelled", "done"}
         ]_vars

\* After a stop() the sink is empty: the only task of one track returned at the
\* end of its track, and a task of a track was cancelled by the stop().
C22_Witness ==
    /\ b_stops > 0
    /\ b_tracks = {}
    /\ \E t \in BhTracks : Len(b_tasks[t]) = 1 /\ b_tasks[t][1] = "done" /\ b_pos[t] = BhFrames
    /\ \E t \in BhTracks : \E i \in DOMAIN b_tasks[t] : b_tasks[t][i] = "cancelled"

\* ---------------------------------------------------------------- C23

\* A recv() of proxy p is suspended in _queue.get() although p was stopped, and
\* its queue is empty; p is outside every active set, so nothing is put in it.
RelayRecvStuck(p) ==
    /\ p \in x_exists
    /\ x_ended[p]
    /\ x_pc[p] = "waiting"
    /\ x_queue[p] = <<>>
    /\ \A s \in Sources : p \notin r_proxies[s]

\* The same for track t of a player: the queue is empty, no put for it is on
\* its way and no thread is left to hand anything over.
PlayerRecvStuck(t) ==
    /\ t \in m_tracks
    /\ t_ended[t]
    /\ t_pc[t] = "waiting"
    /\ t_queue[t] = <<>>
    /\ InFlight(handoff, t) = <<>>
    /\ w_alive = 0

\* C23: a recv() that is suspended waiting for a frame when stop() is called on
\* the same track or proxy completes (with MediaStreamError): it is never left
\* suspended with nothing in its queue and nothing left that could fill it.
C23_StoppedRecvCompletes ==
    /\ \A p \in ProxyIds : ~RelayRecvStuck(p)
    /\ \A t \in Tracks : ~PlayerRecvStuck(t)

\* ---------------------------------------------------------------- C24

\* A recv() of the live proxy p is suspended in _queue.get() with an empty queue
\* after the fan-out task broadcast the sentinel of p's source, and p is not in
\* the source's active set: no task, now or later, puts anything in its queue.
LiveRecvStuck(p) ==
    /\ p \in x_exists
    /\ ~x_ended[p]
    /\ x_source[p] # 0
    /\ r_eos[x_source[p]]
    /\ x_pc[p] = "waiting"
    /\ x_queue[p] = <<>>
    /\ p \notin r_proxies[x_source[p]]

\* C24: once its source has ended, a recv() on a live proxy completes, with a
\* frame or with MediaStreamError: no recv() of a live proxy is left suspended
\* with an empty queue outside the active set of its ended source.
C24_LiveRecvCompletes == \A p \in ProxyIds : ~LiveRecvStuck(p)

\* ---------------------------------------------------------------- C25

\* C25: with two tracks on one player, whatever was done to the sibling, a
\* recv() on a live track returns a frame or fails with MediaStreamError: its
\* result is never another error, and it is never left suspended on an empty
\* queue over a closed container.
C25_SiblingStopHarmless ==
    m_tracks = Tracks =>
        \A t \in Tracks :
            ~t_ended[t] =>
                /\ t_result[t] \in {"none", "frame", "MediaStreamError"}
                /\ ~(/\ t_pc[t] = "waiting"
                     /\ m_container = "closed"
                     /\ t_queue[t] = <<>>
                     /\ InFlight(handoff, t) = <<>>)

\* ---------------------------------------------------------------- C26

\* C26: the thread hands frames only to started tracks: a track that never
\* called recv() has been handed no frame and its queue is empty, and every
\* step that hands a frame to a track finds the track in the started set.
C26_OnlyStartedTracksFed ==
    /\ [](\A t \in Tracks :
             ~TrackCalled(t) => ItemsOf(h_handed[t]) = <<>> /\ t_queue[t] = <<>>)
    /\ [][\A t \in Tracks :
             ItemsOf(h_handed'[t]) # ItemsOf(h_handed[t]) => t \in m_started]_vars
====
